---- MODULE Spec2Model ----
(***************************************************************************)
(* zhusuan/sgmcmc.py: the SGMCMC samplers SGLD, SGHMC and SGNHT.           *)
(*                                                                         *)
(* One sampler object is modelled.  sample() builds a TensorFlow (1.x)     *)
(* graph; running the returned sample_op executes the nodes of that graph  *)
(* in any order that respects their data and control dependencies, so a    *)
(* run of sample_op is modelled node by node.  Tensors are scalars and     *)
(* the hyperparameters are integers, so that the update equations are      *)
(* computed exactly as written in the code.                                *)
(***************************************************************************)
EXTENDS Integers, FiniteSets, Sequences, TLC

(* ------------------------------ bounds --------------------------------- *)
\* number of runs of sample_op the caller makes
MaxSteps == 2
\* tf.random_normal draws one of 0 .. MaxNoise
MaxNoise == 1

(* ------------------------- inputs of the caller ------------------------ *)
\* the latent names the caller uses, in the iteration order of the mapping
Keys == {"a", "b"}
KeyOrder == <<"a", "b">>
\* a latent value is a tf.Variable, another tensor, or the key is absent
LatentMaps == {l \in [Keys -> {"var", "tensor", "absent"}] : \E k \in Keys : l[k] # "absent"}
\* meta_model is a log-joint callable ("fn") or a model object
Callables == {"fn"}
Models == {"M1", "M2"}
ObservedMaps == {"O1", "O2"}
\* the values the caller's variables hold when the sampler is created
InitQ == [k \in Keys |-> IF k = "a" THEN 1 ELSE 2]
Zeros == [k \in Keys |-> 0]

(* --------------------------- hyperparameters --------------------------- *)
\* learning_rate (2, so that 0.5 * lr is an integer)
lr == 2
\* SGHMC: friction and variance_estimate
alpha == 0
beta == 0
\* SGNHT: variance_extra and tune_rate (the defaults of the constructor)
variance_extra == 0
tune_rate == 1

VARIABLES
  alg,                \* the class of the sampler: "SGLD", "SGHMC", "SGNHT"
  n_iter_resample_v,  \* SGHMC.n_iter_resample_v
  t,                  \* SGMCMC.t, the step counter variable
  new_t,              \* the output of t.assign_add(1) in the running step
  q,                  \* the caller's latent variables, by key
  vs,                 \* self.vs, by key
  xis,                \* self.xis, by key
  qs,                 \* the keys of the latents of the built sample_op
  v_assigned,         \* the keys whose variable in self.vs a step has assigned
  _meta_model,        \* "unset" until the first sample call
  _log_joint,
  _observed,
  _latent,
  raised,             \* the key named by the TypeError of the last sample call, or "none"
  pc,                 \* "idle", or "run" while sample_op executes
  done,               \* the nodes of sample_op executed in the running step
  outcome,            \* how the last run of sample_op ended
  rq,                 \* the outputs of the q/read nodes
  grad,               \* the outputs of tf.gradients, by key
  old_v,              \* the outputs of the tf.cond nodes, by key
  old_v_src,          \* the branch each tf.cond took: "noise" or "v"
  t_obs,              \* the value of new_t each latent's predicate read
  new_v, new_q, new_xi,
  steps,              \* how many times sample_op was run
  committed,          \* how many runs of sample_op completed
  pre,                \* the variables' values when the running step began
  mod_by_zero,        \* tf.mod was executed with a zero divisor
  last_args           \* the arguments of the most recent sample call

bindVars == <<_meta_model, _log_joint, _observed, _latent, raised, last_args>>
opVars == <<vs, xis, qs, v_assigned>>
tmpVars == <<rq, grad, old_v, old_v_src, t_obs, new_v, new_q, new_xi>>
runVars == <<t, new_t, q, pc, done, outcome, steps, committed, pre, mod_by_zero>>
vars == <<alg, n_iter_resample_v, bindVars, opVars, tmpVars, runVars>>

(* ------------------------------ helpers -------------------------------- *)
\* the keys of a latent mapping, and those whose value is not a tf.Variable
LatentKeys(latent) == {k \in Keys : latent[k] # "absent"}
NotVariable(latent) == {k \in Keys : latent[k] = "tensor"}
\* for i, v in enumerate(latent_v): the first key, in iteration order, that
\* fails isinstance(v, tf.Variable)
RECURSIVE FirstNotVariable(_, _)
FirstNotVariable(latent, i) ==
  IF i > Len(KeyOrder) THEN "none"
  ELSE IF latent[KeyOrder[i]] = "tensor" THEN KeyOrder[i]
  ELSE FirstNotVariable(latent, i + 1)

NoArgs == [bound |-> FALSE, meta_model |-> "unset", observed |-> "unset", latent |-> [k \in Keys |-> "absent"]]
NoPre == [q |-> InitQ, vs |-> <<>>, xis |-> <<>>, t |-> -1, v_assigned |-> {}]

(* ----------------------------- construction ---------------------------- *)
\* the values of the n_iter_resample_v argument: None, or 0 .. MaxInterval
MaxInterval == 2
ResampleArgs == {[none |-> TRUE, val |-> 0]} \cup {[none |-> FALSE, val |-> n] : n \in 0 .. MaxInterval}

\* SGHMC.__init__: None is replaced by 0
SGHMC_init(arg) == IF arg.none THEN 0 ELSE arg.val

Init ==
  /\ alg \in {"SGLD", "SGHMC", "SGNHT"}
  /\ \E arg \in ResampleArgs :
       n_iter_resample_v = IF alg = "SGHMC" THEN SGHMC_init(arg) ELSE 0
  /\ t = -1
  /\ new_t = -1
  /\ q = InitQ
  /\ vs = <<>>
  /\ xis = <<>>
  /\ qs = {}
  /\ v_assigned = {}
  /\ _meta_model = "unset"
  /\ _log_joint = "unset"
  /\ _observed = "unset"
  /\ _latent = [k \in Keys |-> "absent"]
  /\ raised = "none"
  /\ pc = "idle"
  /\ done = {}
  /\ outcome = "none"
  /\ rq = Zeros /\ grad = Zeros /\ old_v = Zeros
  /\ old_v_src = [k \in Keys |-> "none"]
  /\ t_obs = Zeros
  /\ new_v = Zeros /\ new_q = Zeros /\ new_xi = Zeros
  /\ steps = 0
  /\ committed = 0
  /\ pre = NoPre
  /\ mod_by_zero = FALSE
  /\ last_args = NoArgs

(* ------------------------------- sample -------------------------------- *)
\* StoreBinding with the reset of the model reference left out of the
\* callable branch
StoreBindingKeepsModel(meta_model, observed, latent) ==
  /\ IF meta_model \in Callables
       THEN /\ _meta_model' = _meta_model
            /\ _log_joint' = meta_model
       ELSE /\ _meta_model' = meta_model
            /\ _log_joint' = meta_model
  /\ _observed' = observed
  /\ _latent' = latent

\* lines 31-40: the model reference, the log-joint and the two mappings are
\* stored
StoreBinding(meta_model, observed, latent) ==
  /\ IF meta_model \in Callables
       THEN /\ _meta_model' = "None"
            /\ _log_joint' = meta_model
       ELSE /\ _meta_model' = meta_model
            /\ _log_joint' = meta_model
  /\ _observed' = observed
  /\ _latent' = latent

\* _define_variables of the three classes
DefineVariables(keys) ==
  CASE alg = "SGLD" -> UNCHANGED <<vs, xis>>
    [] alg = "SGHMC" -> vs' = [k \in keys |-> 0] /\ UNCHANGED xis
    [] alg = "SGNHT" -> vs' = [k \in keys |-> 0] /\ xis' = [k \in keys |-> variance_extra]

\* lines 42-46: the isinstance loop
CheckLatent(latent) == FirstNotVariable(latent, 1)

\* sample with _define_variables called before the isinstance loop
SampleDefinesFirst(meta_model, observed, latent) ==
  /\ pc = "idle"
  /\ StoreBinding(meta_model, observed, latent)
  /\ last_args' = [bound |-> TRUE, meta_model |-> meta_model, observed |-> observed, latent |-> latent]
  /\ DefineVariables(LatentKeys(latent))
  /\ raised' = CheckLatent(latent)
  /\ IF raised' # "none"
       THEN UNCHANGED <<qs, v_assigned>>
       ELSE /\ qs' = LatentKeys(latent)
            /\ v_assigned' = {}
  /\ UNCHANGED <<alg, n_iter_resample_v, tmpVars, runVars>>

\* SGMCMC.sample(meta_model, observed, latent), called between runs
Sample(meta_model, observed, latent) ==
  /\ pc = "idle"
  /\ StoreBinding(meta_model, observed, latent)
  /\ last_args' = [bound |-> TRUE, meta_model |-> meta_model, observed |-> observed, latent |-> latent]
  /\ raised' = CheckLatent(latent)
  /\ IF raised' # "none"
       THEN UNCHANGED opVars
       ELSE /\ DefineVariables(LatentKeys(latent))
            /\ qs' = LatentKeys(latent)
            /\ v_assigned' = {}
  /\ UNCHANGED <<alg, n_iter_resample_v, tmpVars, runVars>>

\* the bn property: None (some = FALSE) or the observe-joint of the model
NoBn == [some |-> FALSE, model |-> "None", latent |-> [k \in Keys |-> "absent"], observed |-> "unset"]
bn ==
  IF _meta_model = "unset" THEN NoBn
  ELSE IF _meta_model # "None"
    THEN [some |-> TRUE, model |-> _meta_model, latent |-> _latent, observed |-> _observed]
    ELSE NoBn

(* --------------------------- numeric engine ---------------------------- *)
\* tf.random_normal(shape, stddev = sqrt(variance)): a draw, 0 when the
\* variance is 0
RandomNormal(variance) == IF variance = 0 THEN {0} ELSE 0 .. MaxNoise

Sign(x) == IF x > 0 THEN 1 ELSE IF x < 0 THEN -1 ELSE 0
RECURSIVE Sum(_, _)
Sum(f, S) == IF S = {} THEN 0 ELSE LET k == CHOOSE x \in S : TRUE IN f[k] + Sum(f, S \ {k})

\* get_gradient: tf.gradients of one joint evaluation of the log-joint with
\* respect to every latent; the log-joint of the caller is -|sum of the
\* latents|, whose gradient is the same for every latent
Gradient(seen) == -Sign(Sum(seen, DOMAIN seen))

\* A consumer of the q/read tensor of a (reference) tf.Variable gets the
\* value read earlier or, the read tensor sharing the variable's buffer,
\* the variable's value at the time the consumer runs
SeenByGradient == {seen \in [qs -> {rq[j] : j \in qs} \cup {q[j] : j \in qs}] :
                     \A j \in qs : seen[j] \in {rq[j], q[j]}}

Node(name, k) == <<name, k>>
UsesCounter == alg \in {"SGHMC", "SGNHT"}
AssignNodes ==
  {Node("AssignQ", k) : k \in qs}
    \cup (IF UsesCounter THEN {Node("AssignV", k) : k \in qs} ELSE {})
    \cup (IF alg = "SGNHT" THEN {Node("AssignXi", k) : k \in qs} ELSE {})

(* --------------------------- running sample_op ------------------------- *)
\* the tensors of a run do not outlive it
NoTensors ==
  /\ done' = {}
  /\ rq' = Zeros /\ grad' = Zeros /\ old_v' = Zeros
  /\ old_v_src' = [k \in Keys |-> "none"]
  /\ t_obs' = Zeros
  /\ new_v' = Zeros /\ new_q' = Zeros /\ new_xi' = Zeros

\* the caller runs sample_op
StartStep ==
  /\ pc = "idle"
  /\ qs # {}
  /\ steps < MaxSteps
  /\ pc' = "run"
  /\ outcome' = "running"
  /\ steps' = steps + 1
  /\ pre' = [q |-> q, vs |-> vs, xis |-> xis, t |-> t, v_assigned |-> v_assigned]
  /\ NoTensors
  /\ UNCHANGED <<alg, n_iter_resample_v, bindVars, opVars, t, new_t, q, committed, mod_by_zero>>

\* self.new_t = self.t.assign_add(1)
IncT ==
  /\ pc = "run"
  /\ UsesCounter
  /\ Node("IncT", "-") \notin done
  /\ t' = t + 1
  /\ new_t' = t + 1
  /\ done' = done \cup {Node("IncT", "-")}
  /\ UNCHANGED <<alg, n_iter_resample_v, bindVars, opVars, tmpVars, q, pc, outcome, steps, committed, pre, mod_by_zero>>

\* the q/read nodes of the latents, consumed by get_log_posterior
ReadQ ==
  /\ pc = "run"
  /\ Node("ReadQ", "-") \notin done
  /\ rq' = [k \in Keys |-> IF k \in qs THEN q[k] ELSE 0]
  /\ done' = done \cup {Node("ReadQ", "-")}
  /\ UNCHANGED <<alg, n_iter_resample_v, bindVars, opVars, grad, old_v, old_v_src, t_obs, new_v, new_q, new_xi,
                 t, new_t, q, pc, outcome, steps, committed, pre, mod_by_zero>>

\* tf.gradients(...)[k]: the gradient node of latent k
GradOp(k) ==
  /\ pc = "run"
  /\ k \in qs
  /\ Node("ReadQ", "-") \in done
  /\ Node("Grad", k) \notin done
  /\ \E seen \in SeenByGradient : grad' = [grad EXCEPT ![k] = Gradient(seen)]
  /\ done' = done \cup {Node("Grad", k)}
  /\ UNCHANGED <<alg, n_iter_resample_v, bindVars, opVars, rq, old_v, old_v_src, t_obs, new_v, new_q, new_xi,
                 t, new_t, q, pc, outcome, steps, committed, pre, mod_by_zero>>

\* the log-joint or its gradient fails while some gradient is still to be
\* computed: the run of sample_op ends with the error
OracleFail ==
  /\ pc = "run"
  /\ \E k \in qs : Node("Grad", k) \notin done
  /\ pc' = "idle"
  /\ outcome' = "oracle_error"
  /\ NoTensors
  /\ UNCHANGED <<alg, n_iter_resample_v, bindVars, opVars, t, new_t, q, steps, committed, pre, mod_by_zero>>

\* the predicate computed from the counter's value before the increment
SGHMC_resample_stale(tval) == (tval - 1) % n_iter_resample_v = 0

\* SGHMC._update_single, line 134: tf.equal(tf.mod(self.new_t, self.n_iter_resample_v), 0)
SGHMC_resample(tval) == tval % n_iter_resample_v = 0

\* SGNHT._update_single, line 176: tf.equal(self.new_t, 0)
SGNHT_resample(tval) == tval = 0

\* old_v = tf.cond(pred, resample_momentum, lambda: v) of latent k
TakeBranch(k, pred) ==
  /\ t_obs' = [t_obs EXCEPT ![k] = new_t]
  /\ IF pred
       THEN /\ \E z \in RandomNormal(lr) : old_v' = [old_v EXCEPT ![k] = z]
            /\ old_v_src' = [old_v_src EXCEPT ![k] = "noise"]
       ELSE /\ old_v' = [old_v EXCEPT ![k] = vs[k]]
            /\ old_v_src' = [old_v_src EXCEPT ![k] = "v"]
  /\ done' = done \cup {Node("OldV", k)}
  /\ UNCHANGED <<pc, outcome, mod_by_zero, rq, grad, new_v, new_q, new_xi>>

\* tf.mod with a zero divisor: the integer kernel reports a division by
\* zero and the run of sample_op ends with that error
ModByZero ==
  /\ mod_by_zero' = TRUE
  /\ pc' = "idle"
  /\ outcome' = "mod_error"
  /\ NoTensors

\* the predicate and tf.cond nodes of latent k
OldV(k) ==
  /\ pc = "run"
  /\ UsesCounter
  /\ k \in qs
  /\ Node("IncT", "-") \in done
  /\ Node("OldV", k) \notin done
  /\ IF alg = "SGHMC"
       THEN IF n_iter_resample_v = 0
              THEN ModByZero
              ELSE TakeBranch(k, SGHMC_resample(new_t))
       ELSE TakeBranch(k, SGNHT_resample(new_t))
  /\ UNCHANGED <<alg, n_iter_resample_v, bindVars, opVars, t, new_t, q, steps, committed, pre>>

\* SGLD._update_single, lines 98-99
SGLD_update(k) ==
  /\ \E z \in RandomNormal(lr) : new_q' = [new_q EXCEPT ![k] = rq[k] + (lr * grad[k]) \div 2 + z]
  /\ UNCHANGED <<new_v, new_xi>>

\* SGHMC._update_single, lines 137-139
SGHMC_update(k) ==
  \E z \in RandomNormal(2 * (alpha - beta) * lr) :
    LET nv == (1 - alpha) * old_v[k] + lr * grad[k] + z IN
      /\ new_v' = [new_v EXCEPT ![k] = nv]
      /\ new_q' = [new_q EXCEPT ![k] = rq[k] + nv]
      /\ UNCHANGED new_xi

\* SGNHT._update_single, lines 178-182
SGNHT_update(k) ==
  \E z \in RandomNormal(2 * variance_extra * lr) :
    LET nv == (1 - xis[k]) * old_v[k] + lr * grad[k] + z
        mean_k == nv * nv
    IN
      /\ new_v' = [new_v EXCEPT ![k] = nv]
      /\ new_q' = [new_q EXCEPT ![k] = rq[k] + nv]
      /\ new_xi' = [new_xi EXCEPT ![k] = xis[k] + tune_rate * (mean_k - lr)]

\* the nodes computing new_v, new_q (and new_xi) of latent k
Compute(k) ==
  /\ pc = "run"
  /\ k \in qs
  /\ Node("Grad", k) \in done
  /\ UsesCounter => Node("OldV", k) \in done
  /\ Node("Compute", k) \notin done
  /\ CASE alg = "SGLD" -> SGLD_update(k)
       [] alg = "SGHMC" -> SGHMC_update(k)
       [] alg = "SGNHT" -> SGNHT_update(k)
  /\ done' = done \cup {Node("Compute", k)}
  /\ UNCHANGED <<alg, n_iter_resample_v, bindVars, opVars, rq, grad, old_v, old_v_src, t_obs,
                 t, new_t, q, pc, outcome, steps, committed, pre, mod_by_zero>>

\* update_q = q.assign(new_q), under tf.control_dependencies([new_q, new_v, ...])
AssignQ(k) ==
  /\ pc = "run"
  /\ k \in qs
  /\ Node("Compute", k) \in done
  /\ Node("AssignQ", k) \notin done
  /\ q' = [q EXCEPT ![k] = new_q[k]]
  /\ done' = done \cup {Node("AssignQ", k)}
  /\ UNCHANGED <<alg, n_iter_resample_v, bindVars, opVars, tmpVars, t, new_t, pc, outcome, steps, committed, pre, mod_by_zero>>

\* update_v = v.assign(new_v)
AssignV(k) ==
  /\ pc = "run"
  /\ UsesCounter
  /\ k \in qs
  /\ Node("Compute", k) \in done
  /\ Node("AssignV", k) \notin done
  /\ vs' = [vs EXCEPT ![k] = new_v[k]]
  /\ v_assigned' = v_assigned \cup {k}
  /\ done' = done \cup {Node("AssignV", k)}
  /\ UNCHANGED <<alg, n_iter_resample_v, bindVars, xis, qs, tmpVars, t, new_t, q, pc, outcome, steps, committed, pre, mod_by_zero>>

\* update_xi = xi.assign(new_xi)
AssignXi(k) ==
  /\ pc = "run"
  /\ alg = "SGNHT"
  /\ k \in qs
  /\ Node("Compute", k) \in done
  /\ Node("AssignXi", k) \notin done
  /\ xis' = [xis EXCEPT ![k] = new_xi[k]]
  /\ done' = done \cup {Node("AssignXi", k)}
  /\ UNCHANGED <<alg, n_iter_resample_v, bindVars, vs, qs, v_assigned, tmpVars, t, new_t, q, pc, outcome, steps, committed, pre, mod_by_zero>>

\* sample_op = tf.group(*update_ops): the run returns when every update has run
Finish ==
  /\ pc = "run"
  /\ AssignNodes \subseteq done
  /\ pc' = "idle"
  /\ outcome' = "ok"
  /\ committed' = committed + 1
  /\ NoTensors
  /\ UNCHANGED <<alg, n_iter_resample_v, bindVars, opVars, t, new_t, q, steps, pre, mod_by_zero>>

\* sample called with any model or callable, any observed mapping and any
\* latent mapping
SampleAny ==
  \E meta_model \in Callables \cup Models, observed \in ObservedMaps, latent \in LatentMaps :
    Sample(meta_model, observed, latent)

\* sample called with a model and a latent mapping of variables only
VariableMaps == {l \in LatentMaps : NotVariable(l) = {}}
SampleVariables ==
  \E latent \in VariableMaps : Sample("M1", "O1", latent)

Next ==
  \/ SampleVariables
  \/ StartStep
  \/ IncT
  \/ ReadQ
  \/ \E k \in Keys : GradOp(k)
  \/ OracleFail
  \/ \E k \in Keys : OldV(k)
  \/ \E k \in Keys : Compute(k)
  \/ \E k \in Keys : AssignQ(k)
  \/ \E k \in Keys : AssignV(k)
  \/ \E k \in Keys : AssignXi(k)
  \/ Finish

\* the sampler bound to variables and stepped
Spec == Init /\ [][Next]_vars

\* the sampler bound and bound again, with every kind of argument
NextBind == SampleAny
SpecBind == Init /\ [][NextBind]_vars

(* ------------------------------- claims -------------------------------- *)
PreQ == [j \in qs |-> pre.q[j]]
Ran(name, k) == Node(name, k) \in done

\* C1: a sample call whose latent mapping holds a value that is not a
\* variable raises the TypeError naming such a key, and leaves self.vs,
\* self.xis and the built update operations as they were
C1_TypeErrorBeforeAllocation ==
  [][\A meta_model \in Callables \cup Models, observed \in ObservedMaps, latent \in LatentMaps :
       (Sample(meta_model, observed, latent) /\ NotVariable(latent) # {})
         => (raised' \in NotVariable(latent) /\ UNCHANGED <<vs, xis, qs>>)]_vars

\* a sampler with thermostat variables for latent a, then called with a
\* mapping of a and b that holds a non-variable
C1_Witness ==
  /\ alg = "SGNHT"
  /\ qs = {"a"}
  /\ DOMAIN xis = {"a"}
  /\ LatentKeys(_latent) = {"a", "b"}
  /\ raised \in NotVariable(_latent)

\* C2: while sample_op runs, q, v (and xi) of a latent are either all
\* assigned or all not yet assigned
C2_GroupedAssignmentAtomic ==
  (pc = "run" /\ UsesCounter) =>
    \A k \in qs :
      /\ Ran("AssignQ", k) <=> Ran("AssignV", k)
      /\ alg = "SGNHT" => (Ran("AssignQ", k) <=> Ran("AssignXi", k))

\* C3: every gradient and every new value of a step is computed from the
\* values the latents and the auxiliary variables had when the step began
C3_ComputedFromPreStep ==
  pc = "run" =>
    \A k \in qs :
      /\ Ran("Grad", k) => grad[k] = Gradient(PreQ)
      /\ (Ran("OldV", k) /\ old_v_src[k] = "v") => old_v[k] = pre.vs[k]
      /\ (Ran("Compute", k) /\ UsesCounter) => new_q[k] = pre.q[k] + new_v[k]
      /\ (Ran("Compute", k) /\ alg = "SGNHT") =>
           new_xi[k] = pre.xis[k] + tune_rate * (new_v[k] * new_v[k] - lr)

\* C4: when the gradient oracle fails, the latents, the auxiliary variables
\* and the counter t hold their pre-step values
C4_FailedStepCommitsNothing ==
  [][OracleFail => (q' = pre.q /\ vs' = pre.vs /\ xis' = pre.xis /\ t' = pre.t)]_vars

\* C5: with n_iter_resample_v = 0 (or None) the resample branch is never
\* taken and tf.mod is never computed with the divisor 0
C5_NoResampleNoModByZero ==
  (alg = "SGHMC" /\ n_iter_resample_v = 0) =>
    /\ ~mod_by_zero
    /\ \A k \in Keys : old_v_src[k] # "noise"

C7_CounterCountsSteps ==
  UsesCounter =>
    /\ steps = 0 => t = -1
    /\ pc = "run" => \A k \in qs : Ran("OldV", k) => t_obs[k] = committed
    /\ pc = "idle" => t = committed - 1

\* C8: with a resample interval n > 0 old_v is a noise draw exactly when
\* t mod n = 0 and the stored velocity otherwise; the first step resamples,
\* and with n = 1 every step does
C8_ResampleEveryN ==
  (pc = "run" /\ alg = "SGHMC" /\ n_iter_resample_v > 0) =>
    \A k \in qs :
      Ran("OldV", k) =>
        /\ old_v_src[k] = "noise" <=> t % n_iter_resample_v = 0
        /\ old_v_src[k] = "noise" => old_v[k] \in RandomNormal(lr)
        /\ old_v_src[k] # "noise" => (old_v_src[k] = "v" /\ old_v[k] = pre.vs[k])
        /\ t = 0 => old_v_src[k] = "noise"
        /\ n_iter_resample_v = 1 => old_v_src[k] = "noise"
        /\ (Ran("Compute", k) /\ old_v_src[k] = "noise") =>
             \E z \in RandomNormal(lr), z2 \in RandomNormal(2 * (alpha - beta) * lr) :
               new_v[k] = (1 - alpha) * z + lr * grad[k] + z2

\* the second step of a sampler with n = 2: the stored velocity, which is
\* not zero, is taken
C8_Witness ==
  /\ pc = "run"
  /\ alg = "SGHMC"
  /\ n_iter_resample_v = 2
  /\ t = 1
  /\ "a" \in qs
  /\ Ran("OldV", "a")
  /\ old_v_src["a"] = "v"
  /\ old_v["a"] # 0

\* C9: SGNHT draws old_v afresh in the step with t = 0, and in a step with
\* t >= 1 old_v is the velocity an earlier step assigned
C9_FreshMomentumFirstStepOnly ==
  (pc = "run" /\ alg = "SGNHT") =>
    \A k \in qs :
      Ran("OldV", k) =>
        /\ t = 0 => old_v_src[k] = "noise"
        /\ t >= 1 => /\ old_v_src[k] = "v"
                     /\ old_v[k] = pre.vs[k]
                     /\ k \in pre.v_assigned

\* C10: a sample call that raises the TypeError leaves the stored model
\* reference, log-joint and mappings, and so bn, as they were
C10_FailedSampleKeepsBinding ==
  [][\A meta_model \in Callables \cup Models, observed \in ObservedMaps, latent \in LatentMaps :
       (Sample(meta_model, observed, latent) /\ raised' # "none")
         => (UNCHANGED <<_meta_model, _log_joint, _observed, _latent>> /\ bn' = bn)]_vars

====
